---- MODULE Spec2Model ----
(***************************************************************************)
(* Model of the Best-Buy inventory: products.py (Product,                  *)
(* NonStockedProduct, LimitedProduct), app/promotions.py (PercentDiscount, *)
(* SecondHalfPrice, ThirdOneFree) and the two Store.order variants         *)
(* (app/store.py and store.py).                                            *)
(*                                                                         *)
(* Money is kept exact: a price x is represented by the integer            *)
(* x * MoneyScale, so that price / 2 and price * (1 - percent / 100) have  *)
(* integer representations. The float PercentDiscount really returns is    *)
(* computed by PercentDiscount_price and explored by SpecDouble.           *)
(*                                                                         *)
(* Spec explores one product through every operation; SpecThird the buys   *)
(* of a product with ThirdOneFree and a large stock; SpecStore the list of *)
(* products of a Store over the catalogue of main.                         *)
(***************************************************************************)
EXTENDS Integers, Sequences, FiniteSets, TLC

\* ---------------------------------------------------------------- bounds
MaxQty == 3        \* largest quantity given to a constructor or a setter
MaxBuy == 3        \* largest quantity given to buy or to an order line
MaxLines == 2      \* longest shopping list
MaxOversell == 2   \* quantity and running total are explored down to -MaxOversell
MaxStore == 3      \* longest list of products of a store
MaxInput == 2      \* longest line typed at a prompt of the command line

\* ------------------------------------------------------- input universes
ProductIds == {1}
Prices == {2, 3}
Maximums == {1, 2}
Percents == {30}
MoneyScale == 2 * 100

NoPromotion == [cls |-> "None", percent |-> 0]
Promotions ==
    {[cls |-> "PercentDiscount", percent |-> pc] : pc \in Percents}
    \cup {[cls |-> "SecondHalfPrice", percent |-> 0],
          [cls |-> "ThirdOneFree", percent |-> 0]}

Classes == {"Product", "NonStockedProduct", "LimitedProduct"}
Names == {"", "Pixel"}

\* Values passed as the price argument of a constructor, with their Python
\* type; value is the number the argument compares as (True compares as 1).
PriceArgs ==
    {[type |-> "int", value |-> v] : v \in Prices \cup {-1}}
    \cup {[type |-> "float", value |-> 2], [type |-> "bool", value |-> 1],
          [type |-> "str", value |-> 0], [type |-> "NoneType", value |-> 0]}
NoPrice == [type |-> "NoneType", value |-> 0]

Money(x) == x * MoneyScale

\* ------------------------------------------------------------------ state
VARIABLES
    objs,            \* the Product instances constructed so far: id -> fields
    total_quantity,  \* the class attribute Product.total_quantity
    last,            \* the last call: operation, target, quantity, outcome
    products,        \* Store.products of the store: a list of instances
    cli              \* make_order of main.py: where it waits and its locals

vars == <<objs, total_quantity, last, products, cli>>

\* The locals of make_order: the list returned by get_all_products, the index
\* and the product picked for the line being entered (0 when there is none)
\* and the lines entered so far. pc is "start" in the menu of start.
NoCli ==
    [pc |-> "start", products |-> << >>, product_index |-> NoPrice,
     product |-> 0, order_list |-> << >>]

\* Outcome of a call: the heap after it, the exception raised ("" when it
\* returned) and the value returned.
Result(o, t, e, r) ==
    [objs |-> o, total_quantity |-> t, raised |-> e, ret |-> r]

\* Product.quantity_is_valid: True, or raises Exception.
quantity_is_valid(quantity) == quantity >= 0

\* Product.deactivate
deactivate(o, p) == [o EXCEPT ![p].active = FALSE]

\* Product.activate
activate(o, p) == [o EXCEPT ![p].active = TRUE]

\* Product.quantity setter
Product_quantity_setter(o, t, p, quantity) ==
    IF ~quantity_is_valid(quantity)
    THEN Result(o, t, "Exception", 0)
    ELSE LET o1 == [o EXCEPT ![p].quantity = quantity]
             o2 == IF o1[p].quantity = 0 THEN deactivate(o1, p) ELSE o1
         IN  IF o2[p].quantity < 0
             THEN Result(o2, t, "ValueError", 0)
             ELSE Result(o2, t, "", 0)

\* NonStockedProduct.quantity setter
NonStockedProduct_quantity_setter(o, t, p, quantity) ==
    IF quantity # 0
    THEN Result(o, t, "ValueError", 0)
    ELSE Result([o EXCEPT ![p].quantity = 0], t, "", 0)

\* product.quantity = n, dispatched on the class of the instance
quantity_setter(o, t, p, quantity) ==
    IF o[p].cls = "NonStockedProduct"
    THEN NonStockedProduct_quantity_setter(o, t, p, quantity)
    ELSE Product_quantity_setter(o, t, p, quantity)

\* isinstance(product, products.NonStockedProduct)
IsNonStocked(o, p) == o[p].cls = "NonStockedProduct"

\* PercentDiscount.apply_promotions leaving Product.total_quantity alone
PercentDiscount_apply_promotions_keep_total(o, t, percent, p, quantity) ==
    LET discounted_price == (Money(o[p].price) * (100 - percent)) \div 100
    IN  IF ~IsNonStocked(o, p)
        THEN LET s == quantity_setter(o, t, p, o[p].quantity - quantity)
             IN  IF s.raised # ""
                 THEN s
                 ELSE Result(s.objs, s.total_quantity, "",
                             discounted_price * quantity)
        ELSE Result(o, t, "", discounted_price * quantity)

\* PercentDiscount.apply_promotions. The price returned here is the exact
\* value of price * (100 - percent) / 100 * quantity; the float the code
\* computes is PercentDiscount_price below.
PercentDiscount_apply_promotions(o, t, percent, p, quantity) ==
    LET discounted_price == (Money(o[p].price) * (100 - percent)) \div 100
    IN  IF ~IsNonStocked(o, p)
        THEN LET s == quantity_setter(o, t, p, o[p].quantity - quantity)
             IN  IF s.raised # ""
                 THEN s
                 ELSE Result(s.objs, s.total_quantity - quantity, "",
                             discounted_price * quantity)
        ELSE Result(o, t, "", discounted_price * quantity)

\* SecondHalfPrice.apply_promotions: iteration n of the loop and the rest
RECURSIVE SecondHalfPrice_loop(_, _, _, _, _, _)
SecondHalfPrice_loop(o, t, p, quantity, n, total_price) ==
    IF n > quantity
    THEN Result(o, t, "", total_price)
    ELSE LET tp == IF n % 2 = 0
                   THEN total_price + Money(o[p].price) \div 2
                   ELSE total_price + Money(o[p].price)
         IN  IF ~IsNonStocked(o, p)
             THEN LET s == quantity_setter(o, t, p, o[p].quantity - 1)
                  IN  IF s.raised # ""
                      THEN s
                      ELSE SecondHalfPrice_loop(s.objs, s.total_quantity - 1,
                                                p, quantity, n + 1, tp)
             ELSE SecondHalfPrice_loop(o, t, p, quantity, n + 1, tp)

\* SecondHalfPrice.apply_promotions with the units indexed from 2
SecondHalfPrice_apply_promotions_from_two(o, t, p, quantity) ==
    SecondHalfPrice_loop(o, t, p, quantity + 1, 2, 0)

SecondHalfPrice_apply_promotions(o, t, p, quantity) ==
    SecondHalfPrice_loop(o, t, p, quantity, 1, 0)

\* ThirdOneFree.apply_promotions with every second unit free
RECURSIVE ThirdOneFree_loop_second_free(_, _, _, _, _, _)
ThirdOneFree_loop_second_free(o, t, p, quantity, n, total_price) ==
    IF n > quantity
    THEN Result(o, t, "", total_price)
    ELSE LET tp == IF n % 2 = 0
                   THEN total_price
                   ELSE total_price + Money(o[p].price)
         IN  IF ~IsNonStocked(o, p)
             THEN LET s == quantity_setter(o, t, p, o[p].quantity - quantity)
                  IN  IF s.raised # ""
                      THEN s
                      ELSE ThirdOneFree_loop_second_free(
                               s.objs, s.total_quantity - quantity,
                               p, quantity, n + 1, tp)
             ELSE ThirdOneFree_loop_second_free(o, t, p, quantity, n + 1, tp)

\* ThirdOneFree.apply_promotions: iteration n of the loop and the rest
RECURSIVE ThirdOneFree_loop(_, _, _, _, _, _)
ThirdOneFree_loop(o, t, p, quantity, n, total_price) ==
    IF n > quantity
    THEN Result(o, t, "", total_price)
    ELSE LET tp == IF n % 3 = 0
                   THEN total_price
                   ELSE total_price + Money(o[p].price)
         IN  IF ~IsNonStocked(o, p)
             THEN LET s == quantity_setter(o, t, p, o[p].quantity - quantity)
                  IN  IF s.raised # ""
                      THEN s
                      ELSE ThirdOneFree_loop(s.objs,
                                             s.total_quantity - quantity,
                                             p, quantity, n + 1, tp)
             ELSE ThirdOneFree_loop(o, t, p, quantity, n + 1, tp)

\* ThirdOneFree.apply_promotions deducting the quantity once
ThirdOneFree_apply_promotions_deduct_once(o, t, p, quantity) ==
    LET total_price == Money(o[p].price) * (quantity - quantity \div 3)
    IN  IF ~IsNonStocked(o, p)
        THEN LET s == quantity_setter(o, t, p, o[p].quantity - quantity)
             IN  IF s.raised # ""
                 THEN s
                 ELSE Result(s.objs, s.total_quantity - quantity, "",
                             total_price)
        ELSE Result(o, t, "", total_price)

ThirdOneFree_apply_promotions(o, t, p, quantity) ==
    ThirdOneFree_loop(o, t, p, quantity, 1, 0)

\* apply_promotions of a promotion that keeps the first product it was
\* attached to and applies itself to that product
apply_promotions_on_first_holder(o, t, promotion, p, quantity) ==
    LET holder == CHOOSE x \in DOMAIN o :
                      /\ o[x].promotion = promotion
                      /\ \A y \in DOMAIN o : o[y].promotion = promotion => x <= y
    IN  CASE promotion.cls = "PercentDiscount" ->
                 PercentDiscount_apply_promotions(o, t, promotion.percent,
                                                  holder, quantity)
          [] promotion.cls = "SecondHalfPrice" ->
                 SecondHalfPrice_apply_promotions(o, t, holder, quantity)
          [] promotion.cls = "ThirdOneFree" ->
                 ThirdOneFree_apply_promotions(o, t, holder, quantity)

\* self._promotion.apply_promotions(product, quantity)
apply_promotions(o, t, promotion, p, quantity) ==
    CASE promotion.cls = "PercentDiscount" ->
             PercentDiscount_apply_promotions(o, t, promotion.percent, p, quantity)
      [] promotion.cls = "SecondHalfPrice" ->
             SecondHalfPrice_apply_promotions(o, t, p, quantity)
      [] promotion.cls = "ThirdOneFree" ->
             ThirdOneFree_apply_promotions(o, t, p, quantity)

\* isinstance(self._promotion, Promotion)
HasPromotion(o, p) == o[p].promotion # NoPromotion

\* Product.buy deducting one unit whatever the quantity bought
Product_buy_one_unit(o, t, p, quantity) ==
    IF HasPromotion(o, p)
    THEN apply_promotions(o, t, o[p].promotion, p, quantity)
    ELSE Result([o EXCEPT ![p].quantity = @ - 1], t - 1, "",
                Money(o[p].price) * quantity)

\* Product.buy
Product_buy(o, t, p, quantity) ==
    IF HasPromotion(o, p)
    THEN apply_promotions(o, t, o[p].promotion, p, quantity)
    ELSE Result([o EXCEPT ![p].quantity = @ - quantity], t - quantity, "",
                Money(o[p].price) * quantity)

\* NonStockedProduct.buy
NonStockedProduct_buy(o, t, p, quantity) ==
    IF HasPromotion(o, p)
    THEN apply_promotions(o, t, o[p].promotion, p, quantity)
    ELSE Result(o, t, "", Money(o[p].price) * quantity)

\* LimitedProduct.buy without the clamp to the maximum
LimitedProduct_buy_unclamped(o, t, p, quantity) ==
    IF HasPromotion(o, p)
    THEN apply_promotions(o, t, o[p].promotion, p, o[p].maximum)
    ELSE Result([o EXCEPT ![p].quantity = @ - quantity], t - quantity, "",
                Money(o[p].price) * quantity)

\* LimitedProduct.buy
LimitedProduct_buy(o, t, p, quantity) ==
    LET q == IF quantity > o[p].maximum THEN o[p].maximum ELSE quantity
    IN  IF HasPromotion(o, p)
        THEN apply_promotions(o, t, o[p].promotion, p, o[p].maximum)
        ELSE Result([o EXCEPT ![p].quantity = @ - q], t - q, "",
                    Money(o[p].price) * q)

\* product.buy(quantity), dispatched on the class of the instance
buy(o, t, p, quantity) ==
    CASE o[p].cls = "Product" -> Product_buy(o, t, p, quantity)
      [] o[p].cls = "NonStockedProduct" -> NonStockedProduct_buy(o, t, p, quantity)
      [] o[p].cls = "LimitedProduct" -> LimitedProduct_buy(o, t, p, quantity)

\* Outcome of Store.order: the heap, the exception that escaped ("" when a
\* string was returned), the kind of string returned and the total in it.
OrderResult(o, t, e, m, r) ==
    [objs |-> o, total_quantity |-> t, raised |-> e, msg |-> m, ret |-> r]

\* Store.order of app/store.py without the test of the stock
RECURSIVE Store_order_loop_no_stock_test(_, _, _, _)
Store_order_loop_no_stock_test(o, t, shopping_list, total_price) ==
    IF shopping_list = <<>>
    THEN OrderResult(o, t, "", "Order cost", total_price)
    ELSE LET product == Head(shopping_list).product
             quantity == Head(shopping_list).quantity
         IN  IF ~o[product].active
             THEN OrderResult(o, t, "", "Inactive", total_price)
             ELSE LET b == buy(o, t, product, quantity)
                  IN  IF b.raised # ""
                      THEN OrderResult(b.objs, b.total_quantity, b.raised,
                                       "", total_price)
                      ELSE Store_order_loop_no_stock_test(
                               b.objs, b.total_quantity,
                               Tail(shopping_list), total_price + b.ret)

\* Store.order of app/store.py: the loop over the lines still to process
RECURSIVE Store_order_loop(_, _, _, _)
Store_order_loop(o, t, shopping_list, total_price) ==
    IF shopping_list = <<>>
    THEN OrderResult(o, t, "", "Order cost", total_price)
    ELSE LET product == Head(shopping_list).product
             quantity == Head(shopping_list).quantity
         IN  IF quantity > o[product].quantity /\ ~IsNonStocked(o, product)
             THEN OrderResult(o, t, "", "Quantity larger than what exists",
                              total_price)
             ELSE IF ~o[product].active
             THEN OrderResult(o, t, "", "Inactive", total_price)
             ELSE LET b == buy(o, t, product, quantity)
                  IN  IF b.raised # ""
                      THEN OrderResult(b.objs, b.total_quantity, b.raised,
                                       "", total_price)
                      ELSE Store_order_loop(b.objs, b.total_quantity,
                                            Tail(shopping_list),
                                            total_price + b.ret)

Store_order(o, t, shopping_list) == Store_order_loop(o, t, shopping_list, 0)

\* Store.order of store.py: the loop over the lines still to process
RECURSIVE Store_order_flat_loop(_, _, _, _)
Store_order_flat_loop(o, t, shopping_list, total_price) ==
    IF shopping_list = <<>>
    THEN OrderResult(o, t, "", "Order cost", total_price)
    ELSE LET product == Head(shopping_list).product
             quantity == Head(shopping_list).quantity
         IN  IF quantity > o[product].quantity
             THEN OrderResult(o, t, "", "Quantity larger than what exists",
                              total_price)
             ELSE IF ~o[product].active
             THEN OrderResult(o, t, "", "Inactive", total_price)
             ELSE LET b == buy(o, t, product, quantity)
                  IN  IF b.raised # ""
                      THEN OrderResult(b.objs, b.total_quantity, b.raised,
                                       "", total_price)
                      ELSE Store_order_flat_loop(b.objs, b.total_quantity,
                                                 Tail(shopping_list),
                                                 total_price + b.ret)

Store_order_flat(o, t, shopping_list) ==
    Store_order_flat_loop(o, t, shopping_list, 0)

\* Store.add_product
add_product(list, p) == Append(list, p)

\* Store.remove_product: list.remove deletes the first occurrence of p and
\* raises ValueError when there is none.
RECURSIVE list_remove(_, _)
list_remove(list, p) ==
    IF Head(list) = p THEN Tail(list)
    ELSE <<Head(list)>> \o list_remove(Tail(list), p)

\* Store.get_total_quantity
get_total_quantity(list) == Len(list)

\* Store.get_all_products
get_all_products(o, list) == SelectSeq(list, LAMBDA p : o[p].active)

\* Product.name_is_valid: True, or raises ValueError.
name_is_valid(name) == name # ""

\* Product.price_is_valid without the test of the type of the price
price_is_valid_any_type(price) ==
    IF ~(price.value >= 0) THEN "ValueError" ELSE ""

\* Product.price_is_valid: "" when it returns True, else the exception raised.
price_is_valid(price) ==
    IF ~(price.type = "float" \/ price.type = "int") THEN "TypeError"
    ELSE IF ~(price.value >= 0) THEN "ValueError"
    ELSE ""

\* Product.__init__ leaving every new product active
Product_init_always_active(o, t, p, cls, name, price, quantity) ==
    IF ~name_is_valid(name) THEN Result(o, t, "ValueError", 0)
    ELSE IF price_is_valid(price) # "" THEN Result(o, t, price_is_valid(price), 0)
    ELSE IF ~quantity_is_valid(quantity) THEN Result(o, t, "Exception", 0)
    ELSE LET obj == [cls |-> cls, name |-> name, price |-> price.value,
                     quantity |-> quantity, active |-> TRUE,
                     promotion |-> NoPromotion, maximum |-> 0]
         IN  Result([q \in DOMAIN o \cup {p} |-> IF q = p THEN obj ELSE o[q]],
                    t + quantity, "", 0)

\* Product.__init__ (through super().__init__ for the two subclasses): the
\* instance p is added to the heap, or the constructor raises.
Product_init(o, t, p, cls, name, price, quantity) ==
    IF ~name_is_valid(name) THEN Result(o, t, "ValueError", 0)
    ELSE IF price_is_valid(price) # "" THEN Result(o, t, price_is_valid(price), 0)
    ELSE IF ~quantity_is_valid(quantity) THEN Result(o, t, "Exception", 0)
    ELSE LET obj == [cls |-> cls, name |-> name, price |-> price.value,
                     quantity |-> quantity, active |-> (quantity # 0),
                     promotion |-> NoPromotion, maximum |-> 0]
         IN  Result([q \in DOMAIN o \cup {p} |-> IF q = p THEN obj ELSE o[q]],
                    t + quantity, "", 0)

\* NonStockedProduct.__init__
NonStockedProduct_init(o, t, p, name, price, quantity) ==
    LET s == Product_init(o, t, p, "NonStockedProduct", name, price, quantity)
    IN  IF s.raised # "" THEN s
        ELSE Result(activate(s.objs, p), s.total_quantity, "", 0)

\* LimitedProduct.__init__
LimitedProduct_init(o, t, p, name, price, quantity, maximum) ==
    LET s == Product_init(o, t, p, "LimitedProduct", name, price, quantity)
    IN  IF s.raised # "" THEN s
        ELSE Result([s.objs EXCEPT ![p].maximum = maximum],
                    s.total_quantity, "", 0)

\* Product.set_promotion
set_promotion(o, p, promotion_obj) == [o EXCEPT ![p].promotion = promotion_obj]

\* ------------------------------------------------- double-precision prices
\* The prices PercentDiscount computes are Python floats. A float is modelled
\* as its 53-bit significand m (a sequence of bits, least significant first)
\* and its exponent e, the value being m * 2^e; zero is the empty significand.
\* Every operation computes the exact result and rounds it to the nearest
\* float, ties to even, as IEEE 754 arithmetic does. Exact results are
\* computed on limbs of LimbBits bits.
MantissaBits == 53
LimbBits == 16
DivisionLimbs == 4
DoublePrices == {1, 2, 3, 5, 7, 10}
DoublePercents == {10, 20, 25, 30, 50, 70}

Zeros(k) == [i \in 1..k |-> 0]

\* The value of at most LimbBits bits
RECURSIVE LimbOf(_)
LimbOf(bits) == IF bits = << >> THEN 0 ELSE Head(bits) + 2 * LimbOf(Tail(bits))

Limbs(bits) ==
    [j \in 1..((Len(bits) + LimbBits - 1) \div LimbBits) |->
        LimbOf(SubSeq(bits, (j - 1) * LimbBits + 1,
                      IF j * LimbBits < Len(bits) THEN j * LimbBits
                                                  ELSE Len(bits)))]

Bits(limbs) ==
    [i \in 1..(Len(limbs) * LimbBits) |->
        (limbs[(i - 1) \div LimbBits + 1] \div 2^((i - 1) % LimbBits)) % 2]

\* Without the zeros above the most significant one
Strip(bits) ==
    LET ones == {i \in 1..Len(bits) : bits[i] = 1}
    IN  IF ones = {} THEN << >>
        ELSE SubSeq(bits, 1, CHOOSE i \in ones : \A j \in ones : j <= i)

AddOne(bits) ==
    LET zeros == {i \in 1..Len(bits) : bits[i] = 0}
        z == IF zeros = {} THEN Len(bits) + 1
             ELSE CHOOSE i \in zeros : \A j \in zeros : i <= j
    IN  [i \in 1..(IF zeros = {} THEN Len(bits) + 1 ELSE Len(bits)) |->
            IF i < z THEN 0 ELSE IF i = z THEN 1 ELSE bits[i]]

\* The limbs of a sequence of numbers, each below 2^31, read as digits
RECURSIVE Carry(_, _)
Carry(digits, carry) ==
    IF digits = << >>
    THEN IF carry = 0 THEN << >> ELSE <<carry>>
    ELSE LET d == Head(digits) + carry
         IN  <<d % 2^LimbBits>> \o Carry(Tail(digits), d \div 2^LimbBits)

\* bits * k, for 0 <= k < 2^15
TimesNat(bits, k) ==
    LET limbs == Limbs(bits)
    IN  Bits(Carry([j \in 1..Len(limbs) |-> limbs[j] * k], 0))

\* The float nearest to bits * 2^e (ties to even); sticky says that the exact
\* value lies strictly above bits * 2^e and below (bits + 1) * 2^e.
RoundToDouble(bits, e, sticky) ==
    LET n == Strip(bits)
        d == Len(n) - MantissaBits
    IN  IF n = << >> THEN [m |-> << >>, e |-> 0]
        ELSE IF d <= 0 THEN [m |-> Zeros(-d) \o n, e |-> e + d]
        ELSE LET kept == SubSeq(n, d + 1, Len(n))
                 below == sticky \/ \E i \in 1..(d - 1) : n[i] = 1
                 up == n[d] = 1 /\ (below \/ kept[1] = 1)
                 r == IF up THEN AddOne(kept) ELSE kept
             IN  IF Len(r) > MantissaBits
                 THEN [m |-> Tail(r), e |-> e + d + 1]
                 ELSE [m |-> r, e |-> e + d]

\* float(n) for a natural number n below 2^16
Double(n) == RoundToDouble(Bits(<<n>>), 0, FALSE)

\* Long division by b of the remainder r followed by count zero limbs: the
\* limbs of the quotient, least significant first, and the remainder
RECURSIVE DivideLimbs(_, _, _, _)
DivideLimbs(count, b, r, quotient) ==
    IF count = 0 THEN [quotient |-> quotient, remainder |-> r]
    ELSE DivideLimbs(count - 1, b, (r * 2^LimbBits) % b,
                     <<(r * 2^LimbBits) \div b>> \o quotient)

\* a / b for integers 0 <= a < 2^16 and 0 < b < 2^15: Python's true division,
\* which is correctly rounded
TrueDivide(a, b) ==
    LET d == DivideLimbs(DivisionLimbs, b, a % b, <<a \div b>>)
    IN  RoundToDouble(Bits(d.quotient), -(DivisionLimbs * LimbBits),
                      d.remainder # 0)

\* 1 - x for a float 0 <= x <= 1: 2^-e - m is the two's complement of m on
\* -e bits; x = 1 is the one case where m has more than -e bits
OneMinus(x) ==
    IF x.m = << >> THEN Double(1)
    ELSE LET m == x.m \o Zeros(-x.e - Len(x.m))
             complement == AddOne([i \in 1..Len(m) |-> 1 - m[i]])
         IN  RoundToDouble(IF -x.e < Len(x.m) THEN << >>
                           ELSE SubSeq(complement, 1, Len(m)), x.e, FALSE)

\* x * k for a float x >= 0 and an int 0 <= k < 2^15
TimesInt(x, k) == RoundToDouble(TimesNat(x.m, k), x.e, FALSE)

\* The float PercentDiscount.apply_promotions returns
PercentDiscount_price(price, percent, quantity) ==
    LET discount_multiplier == OneMinus(TrueDivide(percent, 100))
        discounted_price == TimesInt(discount_multiplier, price)
    IN  TimesInt(discounted_price, quantity)

\* ---------------------------------------------------------------- actions
ShoppingLists ==
    UNION {[1..n -> [product : DOMAIN objs, quantity : 1..MaxBuy]] : n \in 1..MaxLines}

\* The explored part of the state space.
InBounds(o, t) ==
    /\ t >= -MaxOversell
    /\ \A p \in DOMAIN o : o[p].quantity >= -MaxOversell

Call(op, p, quantity, r, msg) ==
    [op |-> op, p |-> p, name |-> "", price |-> NoPrice, quantity |-> quantity,
     raised |-> r.raised, msg |-> msg, ret |-> r.ret]

\* A constructor call, with its name and price arguments
NewCall(op, p, name, price, quantity, r) ==
    [Call(op, p, quantity, r, "") EXCEPT !.name = name, !.price = price]

Commit(r, call) ==
    /\ InBounds(r.objs, r.total_quantity)
    /\ objs' = r.objs
    /\ total_quantity' = r.total_quantity
    /\ last' = call
    /\ products' = products
    /\ cli' = cli

NextId == Cardinality(DOMAIN objs) + 1

Init ==
    /\ objs = << >>
    /\ total_quantity = 0
    /\ last = [op |-> "init", p |-> 0, name |-> "", price |-> NoPrice,
               quantity |-> 0, raised |-> "", msg |-> "", ret |-> 0]
    /\ products = << >>
    /\ cli = NoCli

NewProduct ==
    /\ NextId \in ProductIds
    /\ \E name \in Names, price \in PriceArgs, quantity \in -1..MaxQty :
          LET r == Product_init(objs, total_quantity, NextId, "Product",
                                name, price, quantity)
          IN  Commit(r, NewCall("Product", NextId, name, price, quantity, r))

NewNonStockedProduct ==
    /\ NextId \in ProductIds
    /\ \E name \in Names, price \in PriceArgs, quantity \in -1..MaxQty :
          LET r == NonStockedProduct_init(objs, total_quantity, NextId,
                                          name, price, quantity)
          IN  Commit(r, NewCall("NonStockedProduct", NextId, name, price,
                                quantity, r))

NewLimitedProduct ==
    /\ NextId \in ProductIds
    /\ \E name \in Names, price \in PriceArgs, quantity \in -1..MaxQty,
          maximum \in Maximums :
          LET r == LimitedProduct_init(objs, total_quantity, NextId,
                                       name, price, quantity, maximum)
          IN  Commit(r, NewCall("LimitedProduct", NextId, name, price,
                                quantity, r))

SetPromotion ==
    \E p \in DOMAIN objs, promotion_obj \in Promotions :
        LET r == Result(set_promotion(objs, p, promotion_obj),
                        total_quantity, "", 0)
        IN  Commit(r, Call("set_promotion", p, 0, r, ""))

SetQuantity ==
    \E p \in DOMAIN objs, n \in -1..MaxQty :
        LET r == quantity_setter(objs, total_quantity, p, n)
        IN  Commit(r, Call("quantity", p, n, r, ""))

Buy ==
    \E p \in DOMAIN objs, quantity \in 1..MaxBuy :
        LET r == buy(objs, total_quantity, p, quantity)
        IN  Commit(r, Call("buy", p, quantity, r, ""))

Order ==
    \E shopping_list \in ShoppingLists :
        LET r == Store_order(objs, total_quantity, shopping_list)
        IN  Commit(r, Call("order", 0, 0, r, r.msg))

\* Store.order of store.py
OrderFlat ==
    \E shopping_list \in ShoppingLists :
        LET r == Store_order_flat(objs, total_quantity, shopping_list)
        IN  Commit(r, Call("order_flat", 0, 0, r, r.msg))

Next ==
    \/ NewProduct
    \/ NewNonStockedProduct
    \/ NewLimitedProduct
    \/ SetPromotion
    \/ SetQuantity
    \/ Buy
    \/ Order
    \/ OrderFlat

Spec == Init /\ [][Next]_vars

\* The prices of PercentDiscount as floats: a product carrying the promotion,
\* as initiate_promotions of test_products.py and main build it, and its buys.
InitDouble ==
    \E price \in DoublePrices, percent \in DoublePercents,
       cls \in {"Product", "NonStockedProduct"} :
        LET arg == [type |-> "int", value |-> price]
            r == IF cls = "Product"
                 THEN Product_init(<< >>, 0, 1, "Product", "Pixel", arg, MaxQty)
                 ELSE NonStockedProduct_init(<< >>, 0, 1, "Pixel", arg, 0)
        IN  /\ objs = set_promotion(r.objs, 1, [cls |-> "PercentDiscount",
                                                percent |-> percent])
            /\ total_quantity = r.total_quantity
            /\ last = [op |-> "init", p |-> 0, name |-> "", price |-> NoPrice,
                       quantity |-> 0, raised |-> "", msg |-> "", ret |-> 0]
            /\ products = << >>
            /\ cli = NoCli

BuyDouble ==
    \E p \in DOMAIN objs, quantity \in 1..MaxBuy :
        /\ objs[p].promotion.cls = "PercentDiscount"
        /\ LET r == buy(objs, total_quantity, p, quantity)
               price == PercentDiscount_price(objs[p].price,
                                              objs[p].promotion.percent,
                                              quantity)
           IN  Commit(r, [Call("buy", p, quantity, r, "") EXCEPT
                              !.ret = IF r.raised = "" THEN price ELSE 0])

SpecDouble == InitDouble /\ [][BuyDouble]_vars

\* The buys of a stock-tracked product carrying ThirdOneFree, whose stock
\* covers the deductions of the largest buy.
InitThird ==
    \E cls \in {"Product", "LimitedProduct"}, maximum \in Maximums,
       price \in Prices, quantity \in 0..(MaxBuy * MaxBuy) :
        LET arg == [type |-> "int", value |-> price]
            r == IF cls = "Product"
                 THEN Product_init(<< >>, 0, 1, "Product", "Pixel", arg,
                                   quantity)
                 ELSE LimitedProduct_init(<< >>, 0, 1, "Pixel", arg, quantity,
                                          maximum)
        IN  /\ objs = set_promotion(r.objs, 1, [cls |-> "ThirdOneFree",
                                                percent |-> 0])
            /\ total_quantity = r.total_quantity
            /\ last = [op |-> "init", p |-> 0, name |-> "", price |-> NoPrice,
                       quantity |-> 0, raised |-> "", msg |-> "", ret |-> 0]
            /\ products = << >>
            /\ cli = NoCli

SpecThird == InitThird /\ [][Buy]_vars

\* The store of main: a catalogue of a standard product, a standard product
\* with SecondHalfPrice and an unlimited one with ThirdOneFree, and a store
\* built empty or on the catalogue.
Catalogue ==
    LET a == Product_init(<< >>, 0, 1, "Product", "MacBook",
                          [type |-> "int", value |-> 2], MaxQty)
        b == Product_init(a.objs, a.total_quantity, 2, "Product", "Pixel",
                          [type |-> "int", value |-> 3], MaxQty)
        c == NonStockedProduct_init(b.objs, b.total_quantity, 3, "Windows",
                                    [type |-> "int", value |-> 2], 0)
        s == set_promotion(c.objs, 2, [cls |-> "SecondHalfPrice", percent |-> 0])
    IN  Result(set_promotion(s, 3, [cls |-> "ThirdOneFree", percent |-> 0]),
               c.total_quantity, "", 0)

InitStore ==
    /\ objs = Catalogue.objs
    /\ total_quantity = Catalogue.total_quantity
    /\ last = [op |-> "init", p |-> 0, name |-> "", price |-> NoPrice,
               quantity |-> 0, raised |-> "", msg |-> "", ret |-> 0]
    /\ products \in {<< >>, <<1, 2, 3>>}
    /\ cli = NoCli

AddProduct ==
    \E p \in DOMAIN objs :
        /\ Len(products) < MaxStore
        /\ products' = add_product(products, p)
        /\ last' = Call("add_product", p, 0, Result(objs, total_quantity, "", 0), "")
        /\ UNCHANGED <<objs, total_quantity, cli>>

RemoveProduct ==
    \E p \in DOMAIN objs :
        /\ IF \E i \in 1..Len(products) : products[i] = p
           THEN /\ products' = list_remove(products, p)
                /\ last' = Call("remove_product", p, 0,
                                Result(objs, total_quantity, "", 0), "")
           ELSE /\ products' = products
                /\ last' = Call("remove_product", p, 0,
                                Result(objs, total_quantity, "ValueError", 0), "")
        /\ UNCHANGED <<objs, total_quantity, cli>>

GetTotalQuantity ==
    /\ last' = Call("get_total_quantity", 0, 0,
                    Result(objs, total_quantity, "",
                           get_total_quantity(products)), "")
    /\ UNCHANGED <<objs, total_quantity, products, cli>>

\* Store.order on one line; an order of several lines leaves the state that
\* the orders of its lines, one after the other, leave.
OrderLine ==
    \E product \in DOMAIN objs, quantity \in 1..MaxBuy :
        LET r == Store_order(objs, total_quantity,
                             <<[product |-> product, quantity |-> quantity]>>)
        IN  Commit(r, Call("order", product, quantity, r, r.msg))

NextStore ==
    \/ AddProduct
    \/ RemoveProduct
    \/ GetTotalQuantity
    \/ OrderLine

SpecStore == InitStore /\ [][NextStore]_vars

\* The orders of a store of two stock-tracked products without a promotion,
\* constructed with a valid quantity.
InitOrders ==
    \E cls1 \in {"Product", "LimitedProduct"},
       cls2 \in {"Product", "LimitedProduct"},
       quantity1 \in 0..MaxQty, quantity2 \in 0..MaxQty,
       maximum \in Maximums :
        LET a == IF cls1 = "Product"
                 THEN Product_init(<< >>, 0, 1, "Product", "MacBook",
                                   [type |-> "int", value |-> 2], quantity1)
                 ELSE LimitedProduct_init(<< >>, 0, 1, "MacBook",
                                          [type |-> "int", value |-> 2],
                                          quantity1, maximum)
            b == IF cls2 = "Product"
                 THEN Product_init(a.objs, a.total_quantity, 2, "Product",
                                   "Pixel", [type |-> "int", value |-> 3],
                                   quantity2)
                 ELSE LimitedProduct_init(a.objs, a.total_quantity, 2, "Pixel",
                                          [type |-> "int", value |-> 3],
                                          quantity2, maximum)
        IN  /\ objs = b.objs
            /\ total_quantity = b.total_quantity
            /\ last = [op |-> "init", p |-> 0, name |-> "", price |-> NoPrice,
                       quantity |-> 0, raised |-> "", msg |-> "", ret |-> 0]
            /\ products = <<1, 2>>
            /\ cli = NoCli

NextOrders ==
    \/ Order
    \/ OrderFlat

SpecOrders == InitOrders /\ [][NextOrders]_vars

\* Two products of classes cls1 and cls2 constructed with a valid quantity,
\* the first carrying promotion1 and the second promotion2 (NoPromotion for
\* none).
InitPair(cls1, cls2, promotion1, promotion2) ==
    \E quantity1 \in 0..MaxQty, quantity2 \in 0..MaxQty,
       maximum \in Maximums :
        LET a == CASE cls1 = "Product" ->
                        Product_init(<< >>, 0, 1, "Product", "MacBook",
                                     [type |-> "int", value |-> 2], quantity1)
                   [] cls1 = "NonStockedProduct" ->
                        NonStockedProduct_init(<< >>, 0, 1, "MacBook",
                                               [type |-> "int", value |-> 2], 0)
                   [] cls1 = "LimitedProduct" ->
                        LimitedProduct_init(<< >>, 0, 1, "MacBook",
                                            [type |-> "int", value |-> 2],
                                            quantity1, maximum)
            b == CASE cls2 = "Product" ->
                        Product_init(a.objs, a.total_quantity, 2, "Product",
                                     "Pixel", [type |-> "int", value |-> 3],
                                     quantity2)
                   [] cls2 = "NonStockedProduct" ->
                        NonStockedProduct_init(a.objs, a.total_quantity, 2,
                                               "Pixel",
                                               [type |-> "int", value |-> 3], 0)
                   [] cls2 = "LimitedProduct" ->
                        LimitedProduct_init(a.objs, a.total_quantity, 2,
                                            "Pixel",
                                            [type |-> "int", value |-> 3],
                                            quantity2, maximum)
            s1 == IF promotion1 = NoPromotion THEN b.objs
                  ELSE set_promotion(b.objs, 1, promotion1)
            s2 == IF promotion2 = NoPromotion THEN s1
                  ELSE set_promotion(s1, 2, promotion2)
        IN  /\ objs = s2
            /\ total_quantity = b.total_quantity
            /\ last = [op |-> "init", p |-> 0, name |-> "", price |-> NoPrice,
                       quantity |-> 0, raised |-> "", msg |-> "", ret |-> 0]
            /\ products = <<1, 2>>
            /\ cli = NoCli

\* The buys of two products given the same promotion instance by
\* set_promotion. A promotion has the fields set by its constructor, name and
\* percent, and apply_promotions assigns none of them, so the instance is
\* the value of those fields.
InitShared ==
    \E cls1 \in Classes, cls2 \in Classes, promotion \in Promotions :
        InitPair(cls1, cls2, promotion, promotion)

SpecShared == InitShared /\ [][Buy]_vars

\* The orders of a store of two stock-tracked products, each with or without
\* a promotion
InitPromoted ==
    \E cls1 \in {"Product", "LimitedProduct"},
       promotion1 \in Promotions \cup {NoPromotion},
       promotion2 \in Promotions \cup {NoPromotion} :
        InitPair(cls1, "Product", promotion1, promotion2)

SpecPromoted == InitPromoted /\ [][NextOrders]_vars

\* ----------------------------------------------------- the command line
\* A line typed at a prompt is a sequence of characters.
Chars == {"0", "1", "2", "3", "4", "-", " ", "a"}
InputLines == UNION {[1..n -> Chars] : n \in 0..MaxInput}

DigitChars == <<"0", "1", "2", "3", "4", "5", "6", "7", "8", "9">>
IsDigit(c) == \E d \in 1..10 : DigitChars[d] = c
DigitValue(c) == (CHOOSE d \in 1..10 : DigitChars[d] = c) - 1

\* Values of Python: None and the integers
None == [type |-> "NoneType", value |-> 0]
Integer(n) == [type |-> "int", value |-> n]
\* bool(v) of None or an integer
Truthy(v) == v.type = "int" /\ v.value # 0

\* str.strip of the blanks around a number, as int() does it
RECURSIVE lstrip(_)
lstrip(chars) ==
    IF chars # << >> /\ Head(chars) = " " THEN lstrip(Tail(chars)) ELSE chars

RECURSIVE rstrip(_)
rstrip(chars) ==
    IF chars # << >> /\ chars[Len(chars)] = " "
    THEN rstrip(SubSeq(chars, 1, Len(chars) - 1))
    ELSE chars

\* The number written by a sequence of digits
RECURSIVE DecimalValue(_)
DecimalValue(digits) ==
    IF digits = << >> THEN 0
    ELSE 10 * DecimalValue(SubSeq(digits, 1, Len(digits) - 1))
         + DigitValue(digits[Len(digits)])

\* int(num) of a str: blanks around, an optional sign, then digits; raises
\* ValueError on anything else.
int(num) ==
    LET stripped == rstrip(lstrip(num))
        signed == stripped # << >> /\ Head(stripped) \in {"-", "+"}
        digits == IF signed THEN Tail(stripped) ELSE stripped
    IN  IF digits = << >> \/ \E i \in 1..Len(digits) : ~IsDigit(digits[i])
        THEN [raised |-> "ValueError", value |-> 0]
        ELSE [raised |-> "",
              value |-> IF signed /\ Head(stripped) = "-"
                        THEN -DecimalValue(digits)
                        ELSE DecimalValue(digits)]

\* One pass of the loop of a prompt: it asks again (continue) or returns.
Again == [again |-> TRUE, ret |-> None]
Return(v) == [again |-> FALSE, ret |-> v]

\* get_product_index_from_user: the pass of its loop that reads num.
\* products[num - 1] is the last product when num - 1 is -1.
get_product_index_from_user(o, list, num) ==
    LET all == get_all_products(o, list)
    IN  IF num = << >> THEN Return(None)
        ELSE IF num = <<"0">> THEN Again
        ELSE LET n == int(num)
             IN  IF n.raised = "ValueError" THEN Again
                 ELSE IF n.value < 0 THEN Again
                 ELSE IF n.value - 1 >= Len(all) \/ Len(all) = 0 THEN Again
                 ELSE LET product == IF n.value = 0 THEN all[Len(all)]
                                     ELSE all[n.value]
                      IN  IF ~o[product].active THEN Again
                          ELSE Return(Integer(n.value))

\* get_quantity_from_user on a product: the pass of its loop that reads num
get_quantity_from_user(o, product, num) ==
    IF num = << >> THEN Return(None)
    ELSE IF num = <<"0">> THEN Again
    ELSE LET n == int(num)
         IN  IF n.raised = "ValueError" THEN Again
             ELSE IF o[product].quantity < n.value /\ ~IsNonStocked(o, product)
             THEN Again
             ELSE Return(Integer(n.value))

\* The explored part of the state space of the command line: lines with a
\* negative quantity add to the stock, which is explored up to MaxQty.
CliInBounds(o, t) ==
    /\ InBounds(o, t)
    /\ \A p \in DOMAIN o : o[p].quantity <= MaxQty

InitCli ==
    /\ objs = Catalogue.objs
    /\ total_quantity = Catalogue.total_quantity
    /\ last = [op |-> "init", p |-> 0, name |-> "", price |-> NoPrice,
               quantity |-> 0, raised |-> "", msg |-> "", ret |-> 0]
    /\ products = <<1, 2, 3>>
    /\ cli = NoCli

\* start: a choice of the menu. 3 enters make_order, 4 quits; the other
\* choices print and any other line asks again.
Start ==
    /\ cli.pc = "start"
    /\ \E user_input \in InputLines :
          cli' = IF user_input = <<"3">>
                 THEN [NoCli EXCEPT !.pc = "product_index",
                                    !.products = get_all_products(objs, products)]
                 ELSE IF user_input = <<"4">>
                 THEN [NoCli EXCEPT !.pc = "quit"]
                 ELSE cli
    /\ UNCHANGED <<objs, total_quantity, last, products>>

\* make_order at the prompt of get_product_index_from_user
ReadProductIndex ==
    /\ cli.pc = "product_index"
    /\ \E num \in InputLines :
          LET r == get_product_index_from_user(objs, products, num)
          IN  cli' = IF r.again THEN cli
                     ELSE [cli EXCEPT
                             !.pc = "quantity",
                             !.product_index = r.ret,
                             !.product = IF Truthy(r.ret)
                                         THEN cli.products[r.ret.value]
                                         ELSE 0]
    /\ UNCHANGED <<objs, total_quantity, last, products>>

\* make_order at the prompt of get_quantity_from_user: the line is added to
\* order_list, or the loop ends and a non-empty order_list goes to
\* Store.order of store.py, whose result is printed. An exception of the
\* order ends the program.
ReadQuantity ==
    /\ cli.pc = "quantity"
    /\ \E num \in InputLines :
          LET r == IF cli.product = 0 THEN Return(None)
                   ELSE get_quantity_from_user(objs, cli.product, num)
              quantity == r.ret
          IN  IF r.again
              THEN UNCHANGED vars
              ELSE IF Truthy(cli.product_index) /\ Truthy(quantity)
              THEN /\ Len(cli.order_list) < MaxLines
                   /\ quantity.value <= MaxBuy
                   /\ cli' = [cli EXCEPT
                                !.pc = "product_index",
                                !.order_list =
                                    Append(@, [product |-> cli.product,
                                               quantity |-> quantity.value])]
                   /\ UNCHANGED <<objs, total_quantity, last, products>>
              ELSE IF cli.order_list # << >>
              THEN LET b == Store_order_flat(objs, total_quantity,
                                             cli.order_list)
                   IN  /\ CliInBounds(b.objs, b.total_quantity)
                       /\ objs' = b.objs
                       /\ total_quantity' = b.total_quantity
                       /\ UNCHANGED <<last, products>>
                       /\ cli' = [cli EXCEPT !.pc = IF b.raised # ""
                                                    THEN "raised"
                                                    ELSE "start"]
              ELSE /\ cli' = [cli EXCEPT !.pc = "start"]
                   /\ UNCHANGED <<objs, total_quantity, last, products>>

NextCli ==
    \/ Start
    \/ ReadProductIndex
    \/ ReadQuantity

SpecCli == InitCli /\ [][NextCli]_vars

\* ------------------------------------------------------ shared vocabulary
IsOrder(l) == l.op \in {"order", "order_flat"}
OrderErrors == {"Quantity larger than what exists", "Inactive"}
StockTracked(o, p) == o[p].cls \in {"Product", "LimitedProduct"}
Min(a, b) == IF a < b THEN a ELSE b

RECURSIVE SumQuantity(_, _)
SumQuantity(o, ids) ==
    IF ids = {} THEN 0
    ELSE LET p == CHOOSE x \in ids : TRUE
         IN  o[p].quantity + SumQuantity(o, ids \ {p})

\* ----------------------------------------------------------------- claims

\* C1: whenever Store.order returns an error message, the quantity of every
\* product equals its value before the call (no partial mutation).
C1_OrderAllOrNothing ==
    [][(IsOrder(last') /\ last'.raised = "" /\ last'.msg \in OrderErrors)
         => \A p \in DOMAIN objs : objs'[p].quantity = objs[p].quantity]_vars

\* C2: Store.order never propagates an exception: every call ends by
\* returning a string.
C2_OrderNeverThrows ==
    IsOrder(last) => last.raised = ""

\* C3: Product.buy(q) on a standard product without promotion and with
\* current quantity Q raises ValueError whenever q > Q.
C3_BuyExceedingStockFails ==
    [][(/\ last'.op = "buy"
        /\ objs[last'.p].cls = "Product"
        /\ ~HasPromotion(objs, last'.p)
        /\ last'.quantity > objs[last'.p].quantity)
         => last'.raised = "ValueError"]_vars

\* C4: the quantity of every product is >= 0 in every reachable state.
C4_QuantityNeverNegative ==
    \A p \in DOMAIN objs : objs[p].quantity >= 0

\* C5: a stock-tracked product (standard or capacity-limited) is inactive
\* if and only if its quantity is 0.
C5_InactiveIffZero ==
    \A p \in DOMAIN objs :
        StockTracked(objs, p) => (~objs[p].active <=> objs[p].quantity = 0)

\* C6: Product.total_quantity equals the sum of the current quantities of
\* all product instances constructed so far: every construction, every buy
\* and every decrement of a quantity through the setter keeps the two equal.
C6_TotalIsSum ==
    [][(/\ total_quantity = SumQuantity(objs, DOMAIN objs)
        /\ last'.op \in {"Product", "NonStockedProduct", "LimitedProduct",
                         "buy", "quantity"}
        /\ last'.op = "quantity"
             => /\ last'.raised = ""
                /\ last'.quantity <= objs[last'.p].quantity)
         => total_quantity' = SumQuantity(objs', DOMAIN objs')]_vars

\* C7: Product.buy(q) on a standard product without promotion, of price P
\* and quantity Q with 0 < q <= Q, returns P*q and leaves the quantity at
\* Q-q (so a sequence of such buys leaves the initial quantity minus the
\* sum of the bought quantities).
C7_BuyReturnsPriceTimesQuantity ==
    [][(/\ last'.op = "buy"
        /\ objs[last'.p].cls = "Product"
        /\ ~HasPromotion(objs, last'.p)
        /\ 0 < last'.quantity
        /\ last'.quantity <= objs[last'.p].quantity)
         => /\ last'.raised = ""
            /\ last'.ret = Money(objs[last'.p].price) * last'.quantity
            /\ objs'[last'.p].quantity
                 = objs[last'.p].quantity - last'.quantity]_vars

C7_Witness ==
    /\ last.op = "buy"
    /\ objs[last.p].cls = "Product"
    /\ ~HasPromotion(objs, last.p)
    /\ last.raised = ""
    /\ last.quantity >= 2
    /\ objs[last.p].quantity >= 1
    /\ last.ret = Money(objs[last.p].price) * last.quantity

\* C8: LimitedProduct.buy(q) without promotion, with price P and per-order
\* maximum M, returns P * min(q, M) and reduces the quantity and the
\* running total by exactly min(q, M); a request above M is clamped.
C8_LimitedBuyClamps ==
    [][(/\ last'.op = "buy"
        /\ objs[last'.p].cls = "LimitedProduct"
        /\ ~HasPromotion(objs, last'.p))
         => LET m == Min(last'.quantity, objs[last'.p].maximum)
            IN  /\ last'.raised = ""
                /\ last'.ret = Money(objs[last'.p].price) * m
                /\ objs'[last'.p].quantity = objs[last'.p].quantity - m
                /\ total_quantity' = total_quantity - m]_vars

C8_Witness ==
    /\ last.op = "buy"
    /\ objs[last.p].cls = "LimitedProduct"
    /\ ~HasPromotion(objs, last.p)
    /\ last.raised = ""
    /\ last.quantity > objs[last.p].maximum
    /\ last.ret = Money(objs[last.p].price) * objs[last.p].maximum

\* C9: a NonStockedProduct has quantity 0 and is active in every state after
\* its construction, and no buy or order changes its quantity or (for a buy
\* on it) the running total.
C9_NonStockedPinnedAtZero ==
    [][\A p \in DOMAIN objs' :
          objs'[p].cls = "NonStockedProduct"
            => /\ objs'[p].quantity = 0
               /\ objs'[p].active
               /\ (p \in DOMAIN objs /\ (last'.op = "buy" \/ IsOrder(last')))
                    => objs'[p].quantity = objs[p].quantity
               /\ (last'.op = "buy" /\ last'.p = p)
                    => total_quantity' = total_quantity]_vars

\* C10: assigning a negative n to the quantity of a stock-tracked product
\* fails and leaves the quantity unchanged, assigning 0 makes it inactive;
\* assigning any n # 0 to a NonStockedProduct fails and its quantity stays 0.
C10_QuantityAssignment ==
    [][last'.op = "quantity"
         => LET p == last'.p
                n == last'.quantity
            IN  IF StockTracked(objs, p)
                THEN /\ n < 0 => /\ last'.raised # ""
                                 /\ objs'[p].quantity = objs[p].quantity
                     /\ n = 0 => ~objs'[p].active
                ELSE n # 0 => /\ last'.raised # ""
                              /\ objs'[p].quantity = 0]_vars

\* A line passes validation: it names an active product and asks for no more
\* than its stock, an unlimited-availability product being exempt from the
\* stock condition.
LineIsValid(o, line) ==
    /\ o[line.product].active
    /\ IsNonStocked(o, line.product) \/ line.quantity <= o[line.product].quantity

\* Every line is valid at the moment it is checked, that is after the buys of
\* the lines before it; lines that are never checked do not count.
RECURSIVE AllLinesValid(_, _, _)
AllLinesValid(o, t, shopping_list) ==
    IF shopping_list = <<>> THEN TRUE
    ELSE /\ LineIsValid(o, Head(shopping_list))
         /\ LET b == buy(o, t, Head(shopping_list).product,
                         Head(shopping_list).quantity)
            IN  b.raised # "" \/ AllLinesValid(b.objs, b.total_quantity,
                                               Tail(shopping_list))

OrderAcceptsExactlyValid(r, o, t, shopping_list) ==
    IF AllLinesValid(o, t, shopping_list)
    THEN r.raised = "" /\ r.msg = "Order cost"
    ELSE r.raised = "" /\ r.msg \in OrderErrors

\* C11: Store.order (both versions of the store) accepts an order exactly
\* when every line, at the moment it is checked, names an active product and
\* requests no more than its stock, lines for an unlimited-availability
\* product being exempt from the stock condition; otherwise it returns an
\* error message.
C11_OrderAcceptsExactlyValid ==
    \A shopping_list \in ShoppingLists :
        /\ OrderAcceptsExactlyValid(
               Store_order(objs, total_quantity, shopping_list),
               objs, total_quantity, shopping_list)
        /\ OrderAcceptsExactlyValid(
               Store_order_flat(objs, total_quantity, shopping_list),
               objs, total_quantity, shopping_list)

\* One buy per line, in list order: the heap, the running total and the sum
\* of the returned prices after them ("raised" when one of them raises).
RECURSIVE BuyEachLine(_, _, _, _)
BuyEachLine(o, t, shopping_list, sum) ==
    IF shopping_list = <<>> THEN Result(o, t, "", sum)
    ELSE LET b == buy(o, t, Head(shopping_list).product,
                      Head(shopping_list).quantity)
         IN  IF b.raised # "" THEN b
             ELSE BuyEachLine(b.objs, b.total_quantity, Tail(shopping_list),
                              sum + b.ret)

\* C12: when every line of an order passes validation, Store.order calls buy
\* once per line in list order and returns 'Order cost: $T', T being the sum
\* of the prices those calls return.
C12_OrderBuysEachLineAndTotals ==
    \A shopping_list \in ShoppingLists :
        AllLinesValid(objs, total_quantity, shopping_list)
        => LET r == Store_order(objs, total_quantity, shopping_list)
               b == BuyEachLine(objs, total_quantity, shopping_list, 0)
           IN  /\ r.raised = "" /\ r.msg = "Order cost"
               /\ b.raised = "" /\ r.ret = b.ret
               /\ r.objs = b.objs /\ r.total_quantity = b.total_quantity

\* A buy step on a product whose buy hands the requested quantity to the
\* promotion of class cls it carries.
IsPromotionBuy(cls) ==
    /\ last'.op = "buy"
    /\ objs[last'.p].cls \in {"Product", "NonStockedProduct"}
    /\ objs[last'.p].promotion.cls = cls
    /\ last'.quantity >= 1

\* P for every odd unit and P/2 for every even one
SecondHalfPrice_total(P, q) == Money(P) * q - (Money(P) \div 2) * (q \div 2)

\* C13: with the second-unit-half-price promotion, buy(q) returns
\* P*q - (P/2)*floor(q/2) for every price P and quantity q >= 1 (P, 1.5*P,
\* 2.5*P for one, two, three units); it returns on every
\* unlimited-availability product and on a standard one holding q units.
C13_SecondHalfPrice ==
    [][IsPromotionBuy("SecondHalfPrice")
         => /\ last'.raised = ""
                => last'.ret = SecondHalfPrice_total(objs[last'.p].price,
                                                     last'.quantity)
            /\ (\/ IsNonStocked(objs, last'.p)
                \/ last'.quantity <= objs[last'.p].quantity)
                => last'.raised = ""]_vars

C13_Witness ==
    /\ last.op = "buy"
    /\ last.raised = ""
    /\ objs[last.p].cls = "Product"
    /\ objs[last.p].promotion.cls = "SecondHalfPrice"
    /\ last.quantity = 3
    /\ last.ret = (Money(objs[last.p].price) * 5) \div 2

\* P for every unit but the third, sixth, ... which are free
ThirdOneFree_total(P, q) == Money(P) * (q - q \div 3)

C15_PercentDiscount ==
    (last.op = "buy" /\ last.raised = "")
        => last.ret = TrueDivide(objs[last.p].price
                                   * (100 - objs[last.p].promotion.percent)
                                   * last.quantity, 100)

\* The call recorded in l is a construction; its arguments are valid
IsNew(l) == l.op \in Classes
ValidArguments(l) ==
    /\ l.name # ""
    /\ l.price.type \in {"int", "float"} /\ l.price.value >= 0
    /\ l.quantity >= 0

\* C16: for every valid input (non-empty name, price >= 0, integer quantity
\* >= 0) construction succeeds, and right after it is_active() is
\* (quantity != 0) for a standard or capacity-limited product and true for an
\* unlimited-availability product.
C16_ValidConstructionSucceeds ==
    (IsNew(last) /\ ValidArguments(last))
        => /\ last.raised = ""
           /\ last.p \in DOMAIN objs
           /\ objs[last.p].cls = last.op
           /\ objs[last.p].active = IF last.op = "NonStockedProduct" THEN TRUE
                                    ELSE last.quantity # 0

C16_Witness ==
    /\ last.op = "Product"
    /\ ValidArguments(last)
    /\ last.quantity = 0
    /\ last.raised = ""
    /\ ~objs[last.p].active

\* C17: a construction with an empty name, a negative price, a non-numeric
\* price (booleans included) or a negative quantity fails with an error and
\* has no effect: the running total is unchanged and no instance exists.
C17_InvalidConstructionFails ==
    [][(IsNew(last') /\ ~ValidArguments(last'))
         => /\ last'.raised # ""
            /\ objs' = objs
            /\ total_quantity' = total_quantity]_vars

C17_Witness ==
    /\ IsNew(last)
    /\ last.name # "" /\ last.quantity >= 0
    /\ last.price.type = "bool"
    /\ last.raised = "TypeError"
    /\ objs = << >>
    /\ total_quantity = 0

\* C18: get_all_products returns the active products of the store in
\* insertion order: add_product(p) puts p after the products it returned
\* before when p is active, and after remove_product(p) it returns what it
\* returned before without p.
C18_ListActive ==
    [][/\ last'.op = "add_product"
           => get_all_products(objs', products')
                = get_all_products(objs, products)
                    \o IF objs[last'.p].active THEN <<last'.p>> ELSE << >>
       /\ last'.op = "remove_product"
           => get_all_products(objs', products')
                = SelectSeq(get_all_products(objs, products),
                            LAMBDA x : x # last'.p)]_vars

\* The sum of the quantity of the products of a list
RECURSIVE SumOfQuantity(_, _)
SumOfQuantity(o, list) ==
    IF list = << >> THEN 0
    ELSE o[Head(list)].quantity + SumOfQuantity(o, Tail(list))

\* C19: Store.get_total_quantity returns the sum of the quantity of the
\* active products of the store, in every state reached by add_product,
\* remove_product and order.
C19_TotalStockCount ==
    last.op = "get_total_quantity"
        => last.ret = SumOfQuantity(objs, get_all_products(objs, products))

\* A buy step of q units, 1 <= q <= stock, on a stock-tracked product
\* carrying ThirdOneFree
IsThirdOneFreeBuy ==
    /\ last'.op = "buy"
    /\ StockTracked(objs, last'.p)
    /\ objs[last'.p].promotion.cls = "ThirdOneFree"
    /\ 1 <= last'.quantity
    /\ last'.quantity <= objs[last'.p].quantity

UnitsHanded(o, p, quantity) ==
    IF o[p].cls = "LimitedProduct" THEN o[p].maximum ELSE quantity

C21_PromotionsDeductQuantity ==
    [][(/\ last'.op = "buy"
        /\ objs[last'.p].promotion.cls \in {"PercentDiscount", "SecondHalfPrice"}
        /\ last'.quantity >= 1)
         => /\ (/\ objs[last'.p].cls = "Product"
                /\ last'.quantity <= objs[last'.p].quantity)
                => /\ last'.raised = ""
                   /\ objs'[last'.p].quantity
                        = objs[last'.p].quantity - last'.quantity
                   /\ total_quantity' = total_quantity - last'.quantity
            /\ IsNonStocked(objs, last'.p)
                => /\ last'.raised = ""
                   /\ objs'[last'.p].quantity = objs[last'.p].quantity
                   /\ total_quantity' = total_quantity]_vars

C21_Witness ==
    /\ last.op = "buy"
    /\ last.raised = ""
    /\ objs[last.p].cls = "Product"
    /\ objs[last.p].promotion.cls = "PercentDiscount"
    /\ last.quantity = 2
    /\ objs[last.p].quantity = 1
    /\ total_quantity = 1

\* C22: LimitedProduct.buy(q) with maximum M and a promotion attached passes
\* min(q, M) units to the promotion: what is raised, charged and deducted
\* is what the promotion does with min(q, M) units, also when q < M.
C22_LimitedPassesRequestedUnits ==
    [][(/\ last'.op = "buy"
        /\ objs[last'.p].cls = "LimitedProduct"
        /\ HasPromotion(objs, last'.p)
        /\ last'.quantity >= 1)
         => LET r == apply_promotions(
                         objs, total_quantity, objs[last'.p].promotion, last'.p,
                         Min(last'.quantity, objs[last'.p].maximum))
            IN  /\ last'.raised = r.raised
                /\ last'.ret = r.ret
                /\ objs' = r.objs
                /\ total_quantity' = r.total_quantity]_vars

\* C23: get_quantity_from_user asks again, returns None, or returns an
\* integer n with n >= 1 and, on a stock-tracked product, n <= the quantity
\* of the product; no line of the order_list of make_order has a zero or
\* negative quantity.
C23_CliPassesPositiveQuantities ==
    /\ \A product \in DOMAIN objs, num \in InputLines :
          LET r == get_quantity_from_user(objs, product, num)
          IN  \/ r.again
              \/ r.ret = None
              \/ /\ r.ret.type = "int"
                 /\ r.ret.value >= 1
                 /\ StockTracked(objs, product)
                      => r.ret.value <= objs[product].quantity
    /\ \A i \in 1..Len(cli.order_list) : cli.order_list[i].quantity >= 1

\* C24: in every state reached by Store.order calls whose lines have positive
\* quantities, the same product on several lines included, over standard and
\* capacity-limited products without a promotion, the quantity of every
\* product is >= 0.
C24_OrdersNeverOversell ==
    \A p \in DOMAIN objs :
        (StockTracked(objs, p) /\ ~HasPromotion(objs, p))
            => objs[p].quantity >= 0

\* An order that bought a line and then refused a later one, with a product
\* sold out.
C24_Witness ==
    /\ last.op = "order"
    /\ last.msg = "Quantity larger than what exists"
    /\ last.ret > 0
    /\ \E p \in DOMAIN objs : objs[p].quantity = 0

\* C25: whenever buy(q) on a stock-tracked product with a promotion attached
\* raises an error, the quantity of the product, its active flag and
\* Product.total_quantity equal their values before the call.
C25_FailedBuyIsAtomic ==
    [][(/\ last'.op = "buy"
        /\ StockTracked(objs, last'.p)
        /\ HasPromotion(objs, last'.p)
        /\ last'.raised # "")
         => /\ objs'[last'.p].quantity = objs[last'.p].quantity
            /\ objs'[last'.p].active = objs[last'.p].active
            /\ total_quantity' = total_quantity]_vars

\* C26: while the quantity of a stock-tracked product is 0, every Store.order
\* with a line for it with a positive quantity returns an error and deducts
\* nothing from it, whether or not its active flag was cleared.
C26_SoldOutIsNotSold ==
    \A shopping_list \in ShoppingLists, p \in DOMAIN objs :
        (/\ StockTracked(objs, p)
         /\ objs[p].quantity = 0
         /\ \E i \in 1..Len(shopping_list) : shopping_list[i].product = p)
            => LET r == Store_order(objs, total_quantity, shopping_list)
               IN  /\ r.raised = ""
                   /\ r.msg \in OrderErrors
                   /\ r.objs[p] = objs[p]

\* C27: p.buy(q) leaves the quantity, the active flag and the promotion of
\* every other product r unchanged, also when p and r carry the same
\* promotion, and what r.buy returns or raises afterwards is what it would
\* have returned or raised without the buy of p.
C27_BuyLeavesOtherProducts ==
    [][last'.op = "buy"
         => \A r \in DOMAIN objs \ {last'.p} :
               /\ objs'[r].quantity = objs[r].quantity
               /\ objs'[r].active = objs[r].active
               /\ objs'[r].promotion = objs[r].promotion
               /\ \A quantity \in 1..MaxBuy :
                     LET after == buy(objs', total_quantity', r, quantity)
                         before == buy(objs, total_quantity, r, quantity)
                     IN  /\ after.raised = before.raised
                         /\ after.ret = before.ret]_vars

C27_Witness ==
    /\ last.op = "buy"
    /\ last.p = 2
    /\ last.raised = ""
    /\ last.ret > 0
    /\ objs[2].quantity = 0
    /\ objs[1].quantity = MaxQty
    /\ HasPromotion(objs, 1)
    /\ objs[1].promotion = objs[2].promotion
    /\ StockTracked(objs, 1) /\ StockTracked(objs, 2)

====
